---- MODULE Spec2Model ----
(***************************************************************************)
(* Model of flow/manage.py: the JobStatus order, the reconciliation of the *)
(* status document against the scheduler (update_status) and the           *)
(* submission gate (submit).                                               *)
(*                                                                         *)
(* The job document is the only program state.  The other variables record *)
(* what the last call was given and what it did (last), what the calls     *)
(* before it did (prev, hist), and where each of two unsynchronised        *)
(* callers of submit stands (caller).  cmp holds two status values and     *)
(* what max answers for them.                                              *)
(***************************************************************************)
EXTENDS Integers, FiniteSets, Sequences, TLC

VARIABLES document, last, prev, hist, caller, cmp

vars == <<document, last, prev, hist, caller, cmp>>

(***************************************************************************)
(* class JobStatus(enum.IntEnum)                                           *)
(***************************************************************************)
unknown == 1
registered == 2
inactive == 3
submitted == 4
held == 5
queued == 6
active == 7
error == 8
user == 128

JobStatus == {unknown, registered, inactive, submitted, held, queued, active, error, user}

\* The members in the order of their declaration, "ordered by the significance
\* of the execution status".
Declared == <<unknown, registered, inactive, submitted, held, queued, active, error, user>>

\* the place of a member in that order
Significance(s) == CHOOSE i \in 1..Len(Declared) : Declared[i] = s

\* How many user stati above JobStatus.user a scheduler may report.
MaxUserExt == 1

\* "User stati are >= 128."
UserStati == user .. (user + MaxUserExt)

\* The values a ClusterJob reports from status().
ReportedStati == JobStatus \cup UserStati

(***************************************************************************)
(* One job of one project; the caller's identifier tells the submissions   *)
(* of that job apart.                                                      *)
(***************************************************************************)
Project == "project"
Job == "job"
Identifiers == {"default", "other"}

\* jobsid = '{}-{}-{}'.format(project, job, identifier)
jobsid(project, job, identifier) == <<project, job, identifier>>

JobsIds == {jobsid(Project, Job, i) : i \in Identifiers}

DefaultId == jobsid(Project, Job, "default")

(***************************************************************************)
(* job.document: either without a 'status' key or holding the status       *)
(* document, a mapping from jobsid to int.                                 *)
(***************************************************************************)
EmptyDict == [j \in {} |-> unknown]

NewDocument == [has_status |-> FALSE, status |-> EmptyDict]

\* the assignment made to a new dict instead of the one read
Put_alone(d, key, value) == [k \in {key} |-> value]

\* status_doc[key] = value
Put(d, key, value) == [k \in (DOMAIN d) \cup {key} |-> IF k = key THEN value ELSE d[k]]

\* job.document.get('status', dict())
GetStatusDoc(doc) == IF doc.has_status THEN doc.status ELSE EmptyDict

\* job.document['status'][jobsid] does not raise KeyError
HasEntry(doc, id) == doc.has_status /\ id \in DOMAIN doc.status

\* submit.set_status
set_status(doc, id, value) ==
    [has_status |-> TRUE, status |-> Put(GetStatusDoc(doc), id, value)]

\* the smaller one taken for the larger
max_smaller(a, b) == IF b < a THEN b ELSE a

\* Python's max(a, b): the first of the largest.
max(a, b) == IF b > a THEN b ELSE a

(***************************************************************************)
(* scheduler_jobs: None, or a mapping jobsid -> ClusterJob                 *)
(***************************************************************************)
NoScheduler == [given |-> FALSE, jobs |-> EmptyDict]

SchedulerJobs ==
    {NoScheduler} \cup
    {[given |-> TRUE, jobs |-> f] :
        f \in UNION {[S -> ReportedStati] : S \in SUBSET JobsIds}}

\* a local inference that takes every known jobsid for registered
status_local_registered(id) == registered

\* a local inference that answers 0 for "nothing known"
status_local_zero(id) == 0

status_local(id) == unknown

\* the reported status taken as it is, without the floor at registered
status_scheduler_raw(id, scheduler_jobs) ==
    IF id \notin DOMAIN scheduler_jobs
    THEN unknown
    ELSE scheduler_jobs[id]

status_scheduler(id, scheduler_jobs) ==
    IF id \notin DOMAIN scheduler_jobs
    THEN unknown
    ELSE max(registered, scheduler_jobs[id])

StatusOf(id, sched) ==
    IF sched.given
    THEN max(status_scheduler(id, sched.jobs), status_local(id))
    ELSE status_local(id)

\* a reconciliation that never lowers what is recorded
update_status_keep(doc, sched) ==
    [has_status |-> TRUE,
     status |-> [id \in DOMAIN GetStatusDoc(doc) |-> max(doc.status[id], StatusOf(id, sched))]]

\* a reconciliation that also takes over the jobsids only the scheduler knows
update_status_discover(doc, sched) ==
    [has_status |-> TRUE,
     status |-> [id \in (DOMAIN GetStatusDoc(doc)) \cup (DOMAIN sched.jobs) |-> StatusOf(id, sched)]]

update_status(doc, sched) ==
    [has_status |-> TRUE,
     status |-> [id \in DOMAIN GetStatusDoc(doc) |-> StatusOf(id, sched)]]

(***************************************************************************)
(* submit                                                                  *)
(***************************************************************************)
\* What env.submit does when it is invoked: it returns a truthy or a falsy
\* value, or it raises one of these exceptions.
EnvRaises == {"OSError", "RuntimeError"}
EnvOutcomes == {"truthy", "falsy"} \cup EnvRaises

\* a lookup that takes a missing entry for unknown
Lookup_unknown(doc, id) == IF HasEntry(doc, id) THEN doc ELSE set_status(doc, id, unknown)

\* a lookup that registers the jobsid anew on every call
Lookup_always(doc, id) == set_status(doc, id, registered)

\* lines 135-139: the entry is created as registered when it is missing
Lookup(doc, id) == IF HasEntry(doc, id) THEN doc ELSE set_status(doc, id, registered)

\* a gate that lets a job recorded as submitted through
blocked_above(force, status) == (~force) /\ status > submitted

\* a gate that ignores the force flag
blocked_forced(force, status) == status >= submitted

\* a gate that looks at the error state only
blocked_error(force, status) == (~force) /\ status = error

\* lines 140-145
blocked(force, status) == (~force) /\ status >= submitted

\* env.submit invoked before pretend is looked at
Invokes_always(pretend) == TRUE

\* line 147: assert pretend or env.submit(...)
Invokes(pretend) == ~pretend

\* a falsy answer of env.submit let through
Raised_falsy_ok(pretend, env) ==
    IF pretend \/ env \in {"truthy", "falsy"} THEN "none" ELSE env

\* the exception the try block ends with, "none" when the assertion holds
Raised(pretend, env) ==
    IF pretend \/ env = "truthy" THEN "none"
    ELSE IF env = "falsy" THEN "AssertionError"
    ELSE env

\* a call that leaves the recorded status alone when the try block raises
SubmitRun_unrecorded(doc, id, force, pretend, env) ==
    LET d1 == Lookup(doc, id)
        status == d1.status[id]
        exc == Raised(pretend, env)
    IN  IF blocked(force, status)
        THEN [document |-> d1, status |-> status, result |-> "False",
              env_calls |-> 0, raised |-> "none"]
        ELSE IF exc # "none"
        THEN [document |-> d1, status |-> status,
              result |-> "raised", env_calls |-> 1, raised |-> exc]
        ELSE [document |-> set_status(d1, id, submitted), status |-> status,
              result |-> "True",
              env_calls |-> IF Invokes(pretend) THEN 1 ELSE 0,
              raised |-> "none"]

\* One whole call of submit on document doc.
SubmitRun(doc, id, force, pretend, env) ==
    LET d1 == Lookup(doc, id)
        status == d1.status[id]
        exc == Raised(pretend, env)
    IN  IF blocked(force, status)
        THEN [document |-> d1, status |-> status, result |-> "False",
              env_calls |-> 0, raised |-> "none"]
        ELSE IF exc # "none"
        THEN [document |-> set_status(d1, id, error), status |-> status,
              result |-> "raised", env_calls |-> 1, raised |-> exc]
        ELSE [document |-> set_status(d1, id, submitted), status |-> status,
              result |-> "True",
              env_calls |-> IF Invokes(pretend) THEN 1 ELSE 0,
              raised |-> "none"]

(***************************************************************************)
(* The record of the last call.                                            *)
(***************************************************************************)
NoCall ==
    [op |-> "none", jobsid |-> DefaultId, force |-> FALSE, pretend |-> FALSE,
     env |-> "truthy", fresh |-> FALSE, status |-> unknown,
     result |-> "None", env_calls |-> 0, raised |-> "none",
     scheduler_jobs |-> NoScheduler, inflight |-> "no"]

NoFirst == [first |-> FALSE, jobsid |-> DefaultId, result |-> "None", env_calls |-> 0]

Idle == [pc |-> "idle", jobsid |-> DefaultId, force |-> FALSE, pretend |-> FALSE,
         status |-> unknown, env_calls |-> 0, result |-> "None", raised |-> "none",
         fresh |-> FALSE]

Callers == {1, 2}

\* no comparison asked for
NoPair == [a |-> unknown, b |-> unknown, ab |-> unknown, ba |-> unknown, done |-> FALSE]

Init ==
    /\ document = NewDocument
    /\ last = NoCall
    /\ prev = NoFirst
    /\ hist = [id \in JobsIds |-> "no"]
    /\ caller = [c \in Callers |-> Idle]
    /\ cmp = NoPair

SubmitRecord(id, force, pretend, env, r) ==
    [NoCall EXCEPT !.op = "submit", !.jobsid = id, !.force = force,
                   !.pretend = pretend,
                   !.env = env,
                   !.fresh = ~HasEntry(document, id),
                   !.status = r.status, !.result = r.result,
                   !.env_calls = r.env_calls, !.raised = r.raised]

\* prev: whether the call before the last one was a submit with default
\* arguments for a jobsid without an entry, with a scheduler returning truthy.
FirstDefault(l) ==
    /\ l.op = "submit"
    /\ l.fresh
    /\ ~l.force
    /\ ~l.pretend
    /\ l.env = "truthy"

Summary(l) ==
    IF FirstDefault(l)
    THEN [first |-> TRUE, jobsid |-> l.jobsid, result |-> l.result, env_calls |-> l.env_calls]
    ELSE NoFirst

\* hist[id]: "no" until a submit for id returned True; from then on what the
\* calls of update_status since the latest such submit were given for id:
\* "inflight" (none, or only collections reporting id at submitted or above),
\* "not_reported" (no collection, or a collection without id) or
\* "reported_low" (a collection reporting id below submitted).
HistAfterSubmit(id, r) ==
    IF r.result = "True" THEN [hist EXCEPT ![id] = "inflight"] ELSE hist

HistAfterUpdate(sched) ==
    [id \in JobsIds |->
        IF hist[id] = "no" THEN "no"
        ELSE IF sched.given /\ id \in DOMAIN sched.jobs
        THEN IF sched.jobs[id] < submitted THEN "reported_low" ELSE hist[id]
        ELSE IF hist[id] = "inflight" THEN "not_reported" ELSE hist[id]]

\* What a call of submit does to the document and to the record of the calls.
SubmitCall(id, force, pretend, env) ==
    LET r == SubmitRun(document, id, force, pretend, env)
    IN  /\ document' = r.document
        /\ last' = [SubmitRecord(id, force, pretend, env, r) EXCEPT !.inflight = hist[id]]
        /\ prev' = Summary(last)
        /\ UNCHANGED <<caller, cmp>>

\* What a call of update_status does to them.
UpdateStatusCall(sched) ==
    /\ document' = update_status(document, sched)
    /\ last' = [NoCall EXCEPT !.op = "update_status", !.scheduler_jobs = sched]
    /\ prev' = Summary(last)
    /\ UNCHANGED <<caller, cmp>>

\* submit(env, project, state_point, script, identifier, force, pretend)
Submit(id, force, pretend, env) ==
    /\ SubmitCall(id, force, pretend, env)
    /\ UNCHANGED hist

\* update_status(job, scheduler_jobs)
UpdateStatus(sched) ==
    /\ UpdateStatusCall(sched)
    /\ UNCHANGED hist

Next ==
    \/ \E i \in Identifiers, force \in BOOLEAN, pretend \in BOOLEAN, env \in EnvOutcomes :
          Submit(jobsid(Project, Job, i), force, pretend, env)
    \/ \E sched \in SchedulerJobs : UpdateStatus(sched)

Spec == Init /\ [][Next]_vars

(***************************************************************************)
(* The same calls, with hist keeping for every jobsid what happened since  *)
(* the latest submit for it that returned True.                            *)
(***************************************************************************)
SubmitHist(id, force, pretend, env) ==
    /\ SubmitCall(id, force, pretend, env)
    /\ hist' = HistAfterSubmit(id, SubmitRun(document, id, force, pretend, env))

UpdateStatusHist(sched) ==
    /\ UpdateStatusCall(sched)
    /\ hist' = HistAfterUpdate(sched)

NextHist ==
    \/ \E i \in Identifiers, force \in BOOLEAN, pretend \in BOOLEAN, env \in EnvOutcomes :
          SubmitHist(jobsid(Project, Job, i), force, pretend, env)
    \/ \E sched \in SchedulerJobs : UpdateStatusHist(sched)

SpecHist == Init /\ [][NextHist]_vars

(***************************************************************************)
(* The same calls with a scheduler whose ClusterJobs report members of     *)
(* JobStatus only.                                                         *)
(***************************************************************************)
DeclaredSchedulerJobs ==
    {sched \in SchedulerJobs : \A id \in DOMAIN sched.jobs : sched.jobs[id] \in JobStatus}

NextDeclared ==
    \/ \E i \in Identifiers, force \in BOOLEAN, pretend \in BOOLEAN, env \in EnvOutcomes :
          Submit(jobsid(Project, Job, i), force, pretend, env)
    \/ \E sched \in DeclaredSchedulerJobs : UpdateStatus(sched)

SpecDeclared == Init /\ [][NextDeclared]_vars

(***************************************************************************)
(* Two callers of submit on the same job document, without mutual          *)
(* exclusion: each statement of submit that reads or writes the document   *)
(* is a step of its own, and the steps of the two callers interleave.      *)
(***************************************************************************)
\* The values update_status and set_status store.
StoredStati == ReportedStati

Documents ==
    {NewDocument} \cup
    {[has_status |-> TRUE, status |-> f] :
        f \in UNION {[S -> StoredStati] : S \in SUBSET JobsIds}}

InitRace ==
    /\ document \in Documents
    /\ last = NoCall
    /\ prev = NoFirst
    /\ hist = [id \in JobsIds |-> "no"]
    /\ caller = [c \in Callers |-> Idle]
    /\ cmp = NoPair

\* a gate that reads the document again
GateStatus_reread(c) == document.status[caller[c].jobsid]

\* the status the gate of caller c compares: the local variable of line 136/139
GateStatus(c) == caller[c].status

\* submit is entered
Call(c, id, force, pretend) ==
    /\ caller[c].pc = "idle"
    /\ caller' = [caller EXCEPT ![c] = [Idle EXCEPT !.pc = "L136", !.jobsid = id,
                                                    !.force = force, !.pretend = pretend]]
    /\ UNCHANGED <<document, last, prev, hist, cmp>>

\* line 136: status = job.document['status'][jobsid], or KeyError
L136(c) ==
    /\ caller[c].pc = "L136"
    /\ caller' = [caller EXCEPT ![c] =
          IF HasEntry(document, caller[c].jobsid)
          THEN [@ EXCEPT !.pc = "L140", !.status = document.status[caller[c].jobsid]]
          ELSE [@ EXCEPT !.pc = "L138", !.fresh = TRUE]]
    /\ UNCHANGED <<document, last, prev, hist, cmp>>

\* registered kept in the local variable only, written with the final status
L138_local(c) ==
    /\ caller[c].pc = "L138"
    /\ caller' = [caller EXCEPT ![c].pc = "L140", ![c].status = registered]
    /\ UNCHANGED <<document, last, prev, hist, cmp>>

\* line 138: set_status(JobStatus.registered)
L138(c) ==
    /\ caller[c].pc = "L138"
    /\ document' = set_status(document, caller[c].jobsid, registered)
    /\ caller' = [caller EXCEPT ![c].pc = "L139"]
    /\ UNCHANGED <<last, prev, hist, cmp>>

\* line 139: status = job.document['status'][jobsid]
L139(c) ==
    /\ caller[c].pc = "L139"
    /\ caller' = [caller EXCEPT ![c].pc = "L140",
                                ![c].status = document.status[caller[c].jobsid]]
    /\ UNCHANGED <<document, last, prev, hist, cmp>>

\* lines 140-145
L140(c) ==
    /\ caller[c].pc = "L140"
    /\ caller' = [caller EXCEPT ![c] =
          IF blocked(caller[c].force, GateStatus(c))
          THEN [@ EXCEPT !.pc = "returned", !.result = "False"]
          ELSE [@ EXCEPT !.pc = "L147"]]
    /\ UNCHANGED <<document, last, prev, hist, cmp>>

\* lines 146-148: assert pretend or env.submit(...)
L147(c, env) ==
    /\ caller[c].pc = "L147"
    /\ caller' = [caller EXCEPT ![c] =
          [@ EXCEPT !.pc = IF Raised(caller[c].pretend, env) = "none" THEN "L154" ELSE "L151",
                    !.env_calls = IF Invokes(caller[c].pretend) THEN 1 ELSE 0,
                    !.raised = Raised(caller[c].pretend, env)]]
    /\ UNCHANGED <<document, last, prev, hist, cmp>>

\* lines 149-152: set_status(JobStatus.error); raise
L151(c) ==
    /\ caller[c].pc = "L151"
    /\ document' = set_status(document, caller[c].jobsid, error)
    /\ caller' = [caller EXCEPT ![c].pc = "returned", ![c].result = "raised"]
    /\ UNCHANGED <<last, prev, hist, cmp>>

\* lines 153-156: set_status(JobStatus.submitted); return True
L154(c) ==
    /\ caller[c].pc = "L154"
    /\ document' = set_status(document, caller[c].jobsid, submitted)
    /\ caller' = [caller EXCEPT ![c].pc = "returned", ![c].result = "True"]
    /\ UNCHANGED <<last, prev, hist, cmp>>

NextRace ==
    \/ \E c \in Callers, i \in Identifiers, force \in BOOLEAN, pretend \in BOOLEAN :
          Call(c, jobsid(Project, Job, i), force, pretend)
    \/ \E c \in Callers : L136(c)
    \/ \E c \in Callers : L138(c)
    \/ \E c \in Callers : L139(c)
    \/ \E c \in Callers : L140(c)
    \/ \E c \in Callers, env \in EnvOutcomes : L147(c, env)
    \/ \E c \in Callers : L151(c)
    \/ \E c \in Callers : L154(c)

SpecRace == InitRace /\ [][NextRace]_vars

(***************************************************************************)
(* max over two members of JobStatus, as line 100 and line 110 use it.     *)
(***************************************************************************)
InitMax ==
    /\ document = NewDocument
    /\ last = NoCall
    /\ prev = NoFirst
    /\ hist = [id \in JobsIds |-> "no"]
    /\ caller = [c \in Callers |-> Idle]
    /\ cmp \in {[NoPair EXCEPT !.a = a, !.b = b] : a \in JobStatus, b \in JobStatus}

\* max(a, b) and max(b, a)
ApplyMax ==
    /\ ~cmp.done
    /\ cmp' = [cmp EXCEPT !.ab = max(cmp.a, cmp.b), !.ba = max(cmp.b, cmp.a), !.done = TRUE]
    /\ UNCHANGED <<document, last, prev, hist, caller>>

NextMax == ApplyMax

SpecMax == InitMax /\ [][NextMax]_vars

(***************************************************************************)
(* Properties of the sequential calls (Spec, SpecHist)                     *)
(***************************************************************************)
LastSubmit == last.op = "submit"
LastUpdate == last.op = "update_status"

\* the value recorded for the jobsid of the last call
Recorded == document.status[last.jobsid]

\* C1: two consecutive calls of submit with default arguments for a jobsid
\* without an entry, the scheduler returning truthy: the first returns True
\* and leaves submitted recorded, the second returns False and does not
\* invoke env.submit, which is invoked exactly once in total.
C1_SubmitTwice ==
    /\ FirstDefault(last) =>
          /\ last.result = "True"
          /\ last.env_calls = 1
          /\ HasEntry(document, last.jobsid)
          /\ Recorded = submitted
    /\ (prev.first /\ LastSubmit /\ last.jobsid = prev.jobsid
            /\ ~last.force /\ ~last.pretend /\ last.env = "truthy") =>
          /\ prev.result = "True"
          /\ last.status = submitted
          /\ last.result = "False"
          /\ prev.env_calls + last.env_calls = 1
          /\ Recorded = submitted

C1_Witness ==
    /\ prev.first
    /\ LastSubmit
    /\ last.jobsid = prev.jobsid
    /\ ~last.force
    /\ ~last.pretend
    /\ last.env = "truthy"
    /\ last.result = "False"

\* C2: a call of submit with force=False for a jobsid recorded at submitted
\* or above returns False, does not invoke env.submit and leaves the whole
\* document as it was.
C2_BlockedUnchanged ==
    [][(/\ last'.op = "submit"
        /\ ~last'.force
        /\ HasEntry(document, last'.jobsid)
        /\ document.status[last'.jobsid] >= submitted)
       => (/\ last'.result = "False"
           /\ last'.env_calls = 0
           /\ document' = document)]_vars

C2_Witness ==
    /\ LastSubmit
    /\ ~last.force
    /\ ~last.pretend
    /\ last.status \in UserStati
    /\ last.result = "False"
    /\ Recorded \in UserStati

\* C3, as stated: after a submit for a jobsid returned True, a later submit
\* with force=False for it invokes env.submit only if an update_status in
\* between was given a collection reporting that jobsid below submitted.
C3_OnlyIfReportedLow ==
    (LastSubmit /\ ~last.force /\ last.env_calls = 1 /\ last.inflight # "no")
        => last.inflight = "reported_low"

\* C3, amended: after a submit for a jobsid returned True, a later submit
\* with force=False for it invokes env.submit only if an update_status in
\* between was given no collection, a collection without that jobsid, or a
\* collection reporting that jobsid below submitted.
C3_OnlyIfLowered ==
    (LastSubmit /\ ~last.force /\ last.env_calls = 1 /\ last.inflight # "no")
        => last.inflight \in {"not_reported", "reported_low"}

C3_Witness ==
    /\ LastSubmit
    /\ ~last.force
    /\ last.env_calls = 1
    /\ last.inflight = "not_reported"

\* C4: when env.submit raises, error is recorded for the jobsid when the call
\* ends and the same exception reaches the caller, whatever was recorded
\* before and whatever the force flag.
C4_ErrorRecorded ==
    (LastSubmit /\ last.env_calls = 1 /\ last.env \in EnvRaises)
        => /\ Recorded = error
           /\ last.result = "raised"
           /\ last.raised = last.env

C4_Witness ==
    /\ LastSubmit
    /\ last.force
    /\ last.status = active
    /\ last.env = "OSError"
    /\ last.raised = "OSError"
    /\ Recorded = error

\* C5: with force=True and pretend=False env.submit is invoked whatever is
\* recorded for the jobsid; when it returns truthy the call returns True and
\* submitted is recorded.
C5_ForceSubmits ==
    (LastSubmit /\ last.force /\ ~last.pretend)
        => /\ last.env_calls = 1
           /\ (last.env = "truthy" => last.result = "True" /\ Recorded = submitted)

C5_Witness ==
    /\ LastSubmit
    /\ last.force
    /\ ~last.pretend
    /\ last.status = error
    /\ last.env_calls = 1
    /\ last.result = "True"
    /\ Recorded = submitted

\* C6, as stated: a call of submit with pretend=True never invokes
\* env.submit, and when the call returns submitted is recorded for the jobsid.
C6_PretendRecordsSubmitted ==
    (LastSubmit /\ last.pretend)
        => /\ last.env_calls = 0
           /\ (last.result # "raised" => Recorded = submitted)

\* C6, amended: a call of submit with pretend=True never invokes env.submit;
\* when it passes the gate (force=True or a recorded status below submitted)
\* it returns True and submitted is recorded, and when the gate blocks it the
\* call returns False and the recorded status stays as it was.
C6_PretendGated ==
    (LastSubmit /\ last.pretend)
        => /\ last.env_calls = 0
           /\ IF last.force \/ last.status < submitted
              THEN last.result = "True" /\ Recorded = submitted
              ELSE last.result = "False" /\ Recorded = last.status

C6_Witness ==
    /\ LastSubmit
    /\ last.pretend
    /\ ~last.force
    /\ last.status = inactive
    /\ last.env_calls = 0
    /\ last.result = "True"
    /\ Recorded = submitted

\* C7: update_status with a scheduler collection records, for every jobsid of
\* the document, unknown when the collection has no entry for it and the
\* larger of registered and the reported status when it has one.
C7_SchedulerStatus ==
    [][(last'.op = "update_status" /\ last'.scheduler_jobs.given)
       => \A id \in DOMAIN GetStatusDoc(document) :
            /\ HasEntry(document', id)
            /\ LET jobs == last'.scheduler_jobs.jobs
               IN  IF id \notin DOMAIN jobs
                   THEN document'.status[id] = unknown
                   ELSE /\ document'.status[id] >= registered
                        /\ document'.status[id] >= jobs[id]
                        /\ document'.status[id] \in {registered, jobs[id]}]_vars

C7_Witness ==
    /\ LastUpdate
    /\ last.scheduler_jobs.given
    /\ \E a \in DOMAIN document.status :
          /\ a \notin DOMAIN last.scheduler_jobs.jobs
          /\ document.status[a] = unknown
    /\ \E c \in DOMAIN document.status :
          /\ c \in DOMAIN last.scheduler_jobs.jobs
          /\ last.scheduler_jobs.jobs[c] = unknown
          /\ document.status[c] = registered

\* C8: update_status without a scheduler collection leaves every jobsid of
\* the document recorded as unknown, whatever was recorded before.
C8_NoSchedulerUnknown ==
    [][(last'.op = "update_status" /\ ~last'.scheduler_jobs.given)
       => \A id \in DOMAIN GetStatusDoc(document) :
            HasEntry(document', id) /\ document'.status[id] = unknown]_vars

C8_Witness ==
    /\ LastUpdate
    /\ ~last.scheduler_jobs.given
    /\ prev.first
    /\ prev.result = "True"
    /\ HasEntry(document, prev.jobsid)
    /\ document.status[prev.jobsid] = unknown

\* C9: update_status does not change the set of jobsids of the document: a
\* jobsid only the scheduler collection holds is not added and none is lost.
C9_SameKeys ==
    [][last'.op = "update_status"
       => DOMAIN GetStatusDoc(document') = DOMAIN GetStatusDoc(document)]_vars

C9_Witness ==
    /\ LastUpdate
    /\ last.scheduler_jobs.given
    /\ DOMAIN document.status # {}
    /\ \E id \in DOMAIN last.scheduler_jobs.jobs : id \notin DOMAIN document.status

\* the jobsids of the status document
Ids(doc) == DOMAIN GetStatusDoc(doc)

\* C13: a jobsid once in the status document is never removed from it, and
\* an entry is created only by the first submit for that jobsid, which
\* records registered for it.
C13_EntryLifecycle ==
    [][/\ \A id \in Ids(document) : HasEntry(document', id)
       /\ \A id \in Ids(document') \ Ids(document) :
             /\ last'.op = "submit"
             /\ last'.jobsid = id
             /\ last'.fresh
             /\ last'.status = registered]_vars

C13_Witness ==
    /\ LastSubmit
    /\ last.fresh
    /\ last.status = registered
    /\ last.result = "True"
    /\ Ids(document) = JobsIds

\* C15: a call of submit invokes env.submit at most once and returns False
\* only when it did not invoke it; when env.submit is invoked and returns a
\* falsy value the call raises the assertion failure and error is recorded.
C15_FalsyRaises ==
    LastSubmit =>
        /\ last.env_calls <= 1
        /\ (last.result = "False" => last.env_calls = 0)
        /\ (last.env_calls = 1 /\ last.env = "falsy") =>
              /\ last.result = "raised"
              /\ last.raised = "AssertionError"
              /\ Recorded = error

C15_Witness ==
    /\ LastSubmit
    /\ last.env_calls = 1
    /\ last.env = "falsy"
    /\ last.result = "raised"
    /\ last.raised = "AssertionError"
    /\ Recorded = error

\* C16: a call of submit, whatever its outcome, changes at most the entry of
\* its own jobsid: the entries of the other jobsids of the job keep their
\* values and none is added for them.
C16_OtherEntriesKept ==
    [][last'.op = "submit"
       => /\ \A id \in Ids(document) \ {last'.jobsid} :
                HasEntry(document', id) /\ document'.status[id] = document.status[id]
          /\ Ids(document') \subseteq Ids(document) \cup {last'.jobsid}]_vars

C16_Witness ==
    /\ LastSubmit
    /\ last.jobsid = DefaultId
    /\ last.fresh
    /\ last.result = "raised"
    /\ \E id \in Ids(document) : id # last.jobsid /\ document.status[id] = queued

\* the documents holding the same jobsids as doc
SameIds(doc) == {d \in Documents : Ids(d) = Ids(doc)}

\* C17: what update_status leaves depends on the jobsids of the document and
\* on the scheduler collection only, not on the values recorded before:
\* every document with the same jobsids ends as the same document, and a
\* second update_status with the same collection changes nothing.
C17_UpdateIgnoresValues ==
    LastUpdate =>
        /\ \A d \in SameIds(document) : update_status(d, last.scheduler_jobs) = document
        /\ update_status(document, last.scheduler_jobs) = document

C17_Witness ==
    /\ LastUpdate
    /\ last.scheduler_jobs.given
    /\ prev.first
    /\ prev.result = "True"
    /\ Ids(document) = JobsIds
    /\ document.status[prev.jobsid] = registered
    /\ \E id \in Ids(document) : document.status[id] = unknown

(***************************************************************************)
(* Properties of the two unsynchronised callers (SpecRace)                 *)
(***************************************************************************)
PassedGate(c) ==
    /\ caller[c].pc = "returned"
    /\ ~caller[c].force
    /\ ~caller[c].pretend
    /\ caller[c].status < submitted

\* C10: two callers of submit for the same jobsid, both with force=False and
\* pretend=False, which both read a status below submitted both invoke
\* env.submit, so that the scheduler is invoked twice for that jobsid.
C10_BothSubmit ==
    \A c1, c2 \in Callers :
        (c1 # c2 /\ caller[c1].jobsid = caller[c2].jobsid /\ PassedGate(c1) /\ PassedGate(c2))
            => caller[c1].env_calls + caller[c2].env_calls = 2

C10_Witness ==
    /\ caller[1].jobsid = caller[2].jobsid
    /\ PassedGate(1)
    /\ PassedGate(2)
    /\ caller[1].env_calls = 1
    /\ caller[2].env_calls = 1

(***************************************************************************)
(* Properties of the calls with a scheduler reporting declared stati       *)
(* (SpecDeclared)                                                          *)
(***************************************************************************)
\* C11: with a scheduler that reports declared status values only, every
\* value the status document holds is the ordinal of a member of JobStatus.
C11_ValidOrdinals ==
    \A id \in DOMAIN GetStatusDoc(document) : document.status[id] \in JobStatus

C11_Witness ==
    /\ LastUpdate
    /\ last.scheduler_jobs.given
    /\ \E a, b \in DOMAIN GetStatusDoc(document) :
          /\ document.status[a] = unknown
          /\ document.status[b] = user

\* caller c runs submit alone: the other callers have not entered it
Alone(c) == \A d \in Callers \ {c} : caller[d].pc = "idle"

\* C14: a submit for a jobsid without an entry writes registered for it before
\* the gate check and before env.submit: when the gate is checked and when
\* env.submit is invoked the document holds registered for that jobsid.
C14_RegisteredFirst ==
    \A c \in Callers :
        (Alone(c) /\ caller[c].fresh /\ caller[c].pc \in {"L140", "L147"})
            => /\ HasEntry(document, caller[c].jobsid)
               /\ document.status[caller[c].jobsid] = registered

C14_Witness ==
    /\ Alone(1)
    /\ caller[1].fresh
    /\ caller[1].pc = "L147"
    /\ ~caller[1].pretend
    /\ HasEntry(document, caller[1].jobsid)
    /\ document.status[caller[1].jobsid] = registered

(***************************************************************************)
(* Properties of max over JobStatus (SpecMax)                              *)
(***************************************************************************)
\* C12: for every pair of status values max answers the one of higher
\* significance in the declared order unknown < registered < inactive <
\* submitted < held < queued < active < error < user; the order is total
\* and max is commutative and idempotent.
C12_MaxBySignificance ==
    cmp.done =>
        /\ \/ Significance(cmp.a) < Significance(cmp.b)
           \/ Significance(cmp.b) < Significance(cmp.a)
           \/ cmp.a = cmp.b
        /\ (Significance(cmp.a) < Significance(cmp.b)) <=> (cmp.a < cmp.b)
        /\ cmp.ab = (IF Significance(cmp.a) < Significance(cmp.b) THEN cmp.b ELSE cmp.a)
        /\ cmp.ab = cmp.ba
        /\ (cmp.a = cmp.b => cmp.ab = cmp.a)

C12_Witness ==
    /\ cmp.done
    /\ cmp.a = error
    /\ cmp.b = held
    /\ cmp.ab = error
    /\ cmp.ba = error

====
